---- MODULE Spec2Model ----
(***************************************************************************)
(* nbs/examples/LongHorizon_with_NHITS.ipynb: the long-horizon NHITS        *)
(* tutorial notebook.                                                       *)
(*                                                                          *)
(* Spec        the notebook run top to bottom, statement by statement, with *)
(*             the notebook's own constants (horizon = 96, plotted windows  *)
(*             200/300/400); tables and arrays are carried by their shapes. *)
(* SpecCV      the call fcst.cross_validation(df, val_size, test_size) and   *)
(*             the reshape and metric statements that consume its table, on  *)
(*             small concrete tables (the horizon h is an input here).       *)
(* SpecSearch  the same steps for the notebook's own horizon and search      *)
(*             space, over every state of the configuration sampler.         *)
(***************************************************************************)
EXTENDS Integers, Sequences, FiniteSets, TLC

\* ------------------------------------------------------------- bounds
\* Largest number of series of a loaded dataset.
MaxSeries == 7
\* The short datasets have 1..MaxShortTime distinct timestamps.
MaxShortTime == 40
\* SpecCV: tables of 1..MaxCVSeries series and 1..MaxCVTime timestamps,
\* horizons 1..MaxCVHorizon.
MaxCVSeries == 2
MaxCVTime == 15
MaxCVHorizon == 2
\* The sampler's stream advances by 0..MaxStride per trial; in SpecCV it
\* starts at 0..MaxCVSeed.
MaxStride == 1
MaxCVSeed == 1

\* ------------------------------------------------- notebook constants
horizon == 96
num_samples == 5
series_idx == 3
w_idxs == {200, 300, 400}

SetMax(S) == CHOOSE x \in S : \A y \in S : y <= x

\* int(.2 * n_time): for every n_time up to 3,000,000 the float product
\* truncates to floor(n_time / 5).
SplitSizeHalf(n) == (5 * n) \div 10
SplitSize(n) == (2 * n) \div 10

\* n_windows of cross_validation(test_size=..., n_windows=None), step_size 1.
NWindows(test, hh) == test - hh + 1

\* Numbers of distinct timestamps of the datasets a run may load: the short
\* ones, and the ones around the two sizes that matter to the notebook: the
\* first with a complete test window (test_size = horizon) and the first whose
\* test windows include the last plotted one.
TimeChoices ==
    (1..MaxShortTime)
        \cup {5 * horizon - 1, 5 * horizon,
              5 * (horizon + SetMax(w_idxs)) - 1, 5 * (horizon + SetMax(w_idxs))}

\* ------------------------------------------------------ the search space
\* tune.choice(options): one of the listed options.
Choice(options) == options
\* tune.randint(lower, upper): an integer, lower inclusive, upper exclusive.
Randint(lower, upper) == [i \in 1..(upper - lower) |-> lower + i - 1]

\* nhits_config for horizon hh; each hyperparameter's domain is the sequence
\* of the values it may take.
NhitsConfigWiderSeed(hh) ==
    [learning_rate |-> Choice(<< "1e-3" >>),
     max_steps |-> Choice(<< 1000 >>),
     input_size |-> Choice(<< 5 * hh >>),
     batch_size |-> Choice(<< 7 >>),
     windows_batch_size |-> Choice(<< 256 >>),
     n_pool_kernel_size |-> Choice(<< <<2, 2, 2>>, <<16, 8, 1>> >>),
     n_freq_downsample |-> Choice(<< <<168, 24, 1>>, <<24, 12, 1>>, <<1, 1, 1>> >>),
     activation |-> Choice(<< "ReLU" >>),
     n_blocks |-> Choice(<< <<1, 1, 1>> >>),
     mlp_units |-> Choice(<< << <<512, 512>>, <<512, 512>>, <<512, 512>> >> >>),
     interpolation_mode |-> Choice(<< "linear" >>),
     random_seed |-> Randint(1, 11)]
NhitsConfigFor(hh) ==
    [learning_rate |-> Choice(<< "1e-3" >>),
     max_steps |-> Choice(<< 1000 >>),
     input_size |-> Choice(<< 5 * hh >>),
     batch_size |-> Choice(<< 7 >>),
     windows_batch_size |-> Choice(<< 256 >>),
     n_pool_kernel_size |-> Choice(<< <<2, 2, 2>>, <<16, 8, 1>> >>),
     n_freq_downsample |-> Choice(<< <<168, 24, 1>>, <<24, 12, 1>>, <<1, 1, 1>> >>),
     activation |-> Choice(<< "ReLU" >>),
     n_blocks |-> Choice(<< <<1, 1, 1>> >>),
     mlp_units |-> Choice(<< << <<512, 512>>, <<512, 512>>, <<512, 512>> >> >>),
     interpolation_mode |-> Choice(<< "linear" >>),
     random_seed |-> Randint(1, 10)]

nhits_config == NhitsConfigFor(horizon)

\* AutoNHITS(h=horizon, config=nhits_config, num_samples=5); left out,
\* num_samples is the library's default of 10.
AutoNHITSDefaultSamples(hh) ==
    [h |-> hh, config |-> NhitsConfigFor(hh), num_samples |-> 2 * num_samples]
AutoNHITS(hh) ==
    [h |-> hh, config |-> NhitsConfigFor(hh), num_samples |-> num_samples]

\* The number of raw states of the sampler that give different draws.
SpaceSize(space) ==
    Len(space.n_pool_kernel_size) * Len(space.n_freq_downsample)
        * Len(space.random_seed)

\* The option a raw draw u picks from a domain.
Pick(domain, u) == domain[(u % Len(domain)) + 1]

\* One configuration sampled from the space: every hyperparameter draws from
\* its own domain; u is the sampler's raw state.
SampleConfig(space, u) ==
    LET u2 == u \div Len(space.n_pool_kernel_size)
        u3 == u2 \div Len(space.n_freq_downsample)
    IN  [learning_rate |-> Pick(space.learning_rate, u),
         max_steps |-> Pick(space.max_steps, u),
         input_size |-> Pick(space.input_size, u),
         batch_size |-> Pick(space.batch_size, u),
         windows_batch_size |-> Pick(space.windows_batch_size, u),
         n_pool_kernel_size |-> Pick(space.n_pool_kernel_size, u),
         n_freq_downsample |-> Pick(space.n_freq_downsample, u2),
         activation |-> Pick(space.activation, u),
         n_blocks |-> Pick(space.n_blocks, u),
         mlp_units |-> Pick(space.mlp_units, u),
         interpolation_mode |-> Pick(space.interpolation_mode, u),
         random_seed |-> Pick(space.random_seed, u3)]

\* The sampler's raw state at trial i.
Draw(smp, i, space) == (smp.seed + (i - 1) * smp.stride) % SpaceSize(space)

\* --------------------------------------------------------- the program
\* The executable statements of the code cells, in cell order.
ProgramMetricsFirst ==
    << "imports", "load", "sizes", "x_val", "x_test", "plot_split",
       "unique_ids", "config", "construct", "metrics", "cross_validation",
       "best_result",
       "columns", "reshape", "plot_forecast" >>
Program ==
    << "imports", "load", "sizes", "x_val", "x_test", "plot_split",
       "unique_ids", "config", "construct", "cross_validation", "best_result",
       "columns", "reshape", "plot_forecast", "metrics" >>

Names == {"Y_df", "n_time", "val_size", "test_size", "x_val", "x_test",
          "horizon", "nhits_config", "fcst", "fcst_df", "y_true", "y_hat",
          "n_series"}

\* The names a statement reads; an unbound one raises NameError.
Needs(stmt) ==
    CASE stmt = "sizes" -> {"Y_df"}
      [] stmt = "x_val" -> {"Y_df", "n_time", "val_size", "test_size"}
      [] stmt = "x_test" -> {"Y_df", "n_time", "test_size"}
      [] stmt = "plot_split" -> {"Y_df", "x_val", "x_test"}
      [] stmt = "unique_ids" -> {"Y_df"}
      [] stmt = "construct" -> {"horizon", "nhits_config"}
      [] stmt = "cross_validation" -> {"fcst", "Y_df", "val_size", "test_size"}
      [] stmt = "best_result" -> {"fcst"}
      [] stmt = "columns" -> {"fcst_df", "Y_df"}
      [] stmt = "reshape" -> {"y_true", "y_hat", "n_series", "horizon"}
      [] stmt = "plot_forecast" -> {"y_true", "y_hat"}
      [] stmt = "metrics" -> {"y_true", "y_hat"}
      [] OTHER -> {}

VARIABLES pc, err, executed, ns, bound, out

\* The state of one cross_validation call and of the statements after it.
VARIABLES df, h, sizes, args, cvpc, sampler, trials, selRead, best, fcst_df,
          y_true, y_hat, mae_out, mse_out

nbVars == <<pc, err, executed, ns, bound, out>>
cvVars == <<df, h, sizes, args, cvpc, sampler, trials, selRead, best, fcst_df,
            y_true, y_hat, mae_out, mse_out>>
vars == <<nbVars, cvVars>>

Unbound == "none"

InitNotebook ==
    /\ pc = 1
    /\ err = "none"
    /\ executed = << >>
    /\ ns = [Y_df |-> [n_series |-> 0, n_time |-> 0],
             n_time |-> 0, val_size |-> 0, test_size |-> 0,
             x_val |-> 0, x_test |-> 0, horizon |-> 0,
             fcst |-> [h |-> 0, config |-> NhitsConfigFor(0), num_samples |-> 0],
             fcst_df |-> [n_series |-> 0, n_windows |-> 0, h |-> 0],
             y_true |-> << >>, y_hat |-> << >>, n_series |-> 0]
    /\ bound = [n \in Names |-> Unbound]
    /\ out = << >>

CVIdle ==
    /\ df = [n_series |-> 0, n_time |-> 0, seed |-> 0]
    /\ h = 0
    /\ sizes = [n_time |-> 0, val_size |-> 0, test_size |-> 0]
    /\ args = [val_size |-> 0, test_size |-> 0]
    /\ cvpc = "idle"
    /\ sampler = [seed |-> 0, stride |-> 0]
    /\ trials = << >>
    /\ selRead = {}
    /\ best = 0
    /\ fcst_df = << >>
    /\ y_true = << >>
    /\ y_hat = << >>
    /\ mae_out = << 0, 0 >>
    /\ mse_out = << 0, 0 >>

Init == InitNotebook /\ CVIdle

\* Where execution goes after a statement raised: no cell catches anything,
\* so the run is over.
HaltContinue(p) == p + 1
Halt(p) == Len(Program) + 1

At(stmt) == pc <= Len(Program) /\ Program[pc] = stmt

Defined(names) == \A n \in names : bound[n] # Unbound

Bind(names, stmt) == [n \in Names |-> IF n \in names THEN stmt ELSE bound[n]]

Raise(stmt) ==
    /\ err' = stmt
    /\ pc' = Halt(pc)
    /\ executed' = Append(executed, stmt)
    /\ UNCHANGED <<ns, bound, out>>
    /\ UNCHANGED cvVars

Return(stmt) ==
    /\ pc' = pc + 1
    /\ executed' = Append(executed, stmt)
    /\ UNCHANGED err
    /\ UNCHANGED cvVars

Imports ==
    /\ At("imports")
    /\ Return("imports")
    /\ UNCHANGED <<ns, bound, out>>

\* Y_df, _, _ = LongHorizon.load(...): any balanced long-format table, or the
\* loader raises.
Load ==
    /\ At("load")
    /\ \/ Raise("load")
       \/ \E S \in 1..MaxSeries, T \in TimeChoices :
            /\ ns' = [ns EXCEPT !.Y_df = [n_series |-> S, n_time |-> T]]
            /\ bound' = Bind({"Y_df"}, "load")
            /\ Return("load")
            /\ UNCHANGED out

Sizes ==
    /\ At("sizes")
    /\ IF ~Defined(Needs("sizes"))
       THEN Raise("sizes")
       ELSE /\ ns' = [ns EXCEPT !.n_time = ns.Y_df.n_time,
                                !.val_size = SplitSize(ns.Y_df.n_time),
                                !.test_size = SplitSize(ns.Y_df.n_time)]
            /\ bound' = Bind({"n_time", "val_size", "test_size"}, "sizes")
            /\ Return("sizes")
            /\ UNCHANGED out

\* x_plot is indexed 0 .. n_time - 1.
ValidIndex(i, n) == 0 <= i /\ i < n

ValMarker(n, val, test) == n - val - test
TestMarker(n, test) == n - test

XVal ==
    /\ At("x_val")
    /\ IF \/ ~Defined(Needs("x_val"))
          \/ ~ValidIndex(ValMarker(ns.n_time, ns.val_size, ns.test_size),
                         ns.Y_df.n_time)
       THEN Raise("x_val")
       ELSE /\ ns' = [ns EXCEPT !.x_val =
                          ValMarker(ns.n_time, ns.val_size, ns.test_size)]
            /\ bound' = Bind({"x_val"}, "x_val")
            /\ Return("x_val")
            /\ UNCHANGED out

XTest ==
    /\ At("x_test")
    /\ IF \/ ~Defined(Needs("x_test"))
          \/ ~ValidIndex(TestMarker(ns.n_time, ns.test_size), ns.Y_df.n_time)
       THEN Raise("x_test")
       ELSE /\ ns' = [ns EXCEPT !.x_test = TestMarker(ns.n_time, ns.test_size)]
            /\ bound' = Bind({"x_test"}, "x_test")
            /\ Return("x_test")
            /\ UNCHANGED out

PlotSplit ==
    /\ At("plot_split")
    /\ IF ~Defined(Needs("plot_split"))
       THEN Raise("plot_split")
       ELSE /\ out' = Append(out, "plot_split")
            /\ Return("plot_split")
            /\ UNCHANGED <<ns, bound>>

UniqueIds ==
    /\ At("unique_ids")
    /\ IF ~Defined(Needs("unique_ids"))
       THEN Raise("unique_ids")
       ELSE /\ out' = Append(out, "unique_ids")
            /\ Return("unique_ids")
            /\ UNCHANGED <<ns, bound>>

Config ==
    /\ At("config")
    /\ ns' = [ns EXCEPT !.horizon = horizon]
    /\ bound' = Bind({"horizon", "nhits_config"}, "config")
    /\ Return("config")
    /\ UNCHANGED out

Construct ==
    /\ At("construct")
    /\ IF ~Defined(Needs("construct"))
       THEN Raise("construct")
       ELSE \/ Raise("construct")
            \/ /\ ns' = [ns EXCEPT !.fcst = AutoNHITS(ns.horizon)]
               /\ bound' = Bind({"fcst"}, "construct")
               /\ Return("construct")
               /\ UNCHANGED out

\* fcst_df = fcst.cross_validation(df=Y_df, val_size=val_size,
\*                                 test_size=test_size, n_windows=None)
CrossValidation ==
    /\ At("cross_validation")
    /\ IF ~Defined(Needs("cross_validation"))
       THEN Raise("cross_validation")
       ELSE IF NWindows(ns.test_size, ns.fcst.h) < 1
            THEN Raise("cross_validation")
            ELSE \/ Raise("cross_validation")
                 \/ /\ ns' = [ns EXCEPT !.fcst_df =
                                  [n_series |-> ns.Y_df.n_series,
                                   n_windows |-> NWindows(ns.test_size, ns.fcst.h),
                                   h |-> ns.fcst.h]]
                    /\ bound' = Bind({"fcst_df"}, "cross_validation")
                    /\ Return("cross_validation")
                    /\ UNCHANGED out

BestResult ==
    /\ At("best_result")
    /\ IF ~Defined(Needs("best_result"))
       THEN Raise("best_result")
       ELSE /\ out' = Append(out, "best_config")
            /\ Return("best_result")
            /\ UNCHANGED <<ns, bound>>

Rows(d) == d.n_series * d.n_windows * d.h

Columns ==
    /\ At("columns")
    /\ IF ~Defined(Needs("columns"))
       THEN Raise("columns")
       ELSE /\ ns' = [ns EXCEPT !.y_true = << Rows(ns.fcst_df) >>,
                                !.y_hat = << Rows(ns.fcst_df) >>,
                                !.n_series = ns.Y_df.n_series]
            /\ bound' = Bind({"y_true", "y_hat", "n_series"}, "columns")
            /\ Return("columns")
            /\ UNCHANGED out

\* The shape of a flat array of n elements after reshape(s, -1, h).
ReshapeShape(n, s, hh) == << s, n \div (s * hh), hh >>
CanReshape(n, s, hh) == n % (s * hh) = 0

ReshapeStmt ==
    /\ At("reshape")
    /\ IF ~Defined(Needs("reshape"))
       THEN Raise("reshape")
       ELSE IF ~CanReshape(ns.y_true[1], ns.n_series, ns.horizon)
            THEN Raise("reshape")
            ELSE /\ ns' = [ns EXCEPT
                       !.y_true = ReshapeShape(ns.y_true[1], ns.n_series, ns.horizon),
                       !.y_hat = ReshapeShape(ns.y_hat[1], ns.n_series, ns.horizon)]
                 /\ bound' = Bind({"y_true", "y_hat"}, "reshape")
                 /\ out' = Append(out, "shapes")
                 /\ Return("reshape")

PlotForecast ==
    /\ At("plot_forecast")
    /\ IF ~Defined(Needs("plot_forecast"))
       THEN Raise("plot_forecast")
       ELSE IF \/ Len(ns.y_true) # 3
               \/ ~ValidIndex(series_idx, ns.y_true[1])
               \/ \E w \in w_idxs : ~ValidIndex(w, ns.y_true[2])
            THEN Raise("plot_forecast")
            ELSE /\ out' = Append(out, "plot_forecast")
                 /\ Return("plot_forecast")
                 /\ UNCHANGED <<ns, bound>>

Metrics ==
    /\ At("metrics")
    /\ IF ~Defined(Needs("metrics"))
       THEN Raise("metrics")
       ELSE \/ Raise("metrics")
            \/ /\ out' = out \o << "MAE", "MSE" >>
               /\ Return("metrics")
               /\ UNCHANGED <<ns, bound>>

Next ==
    \/ Imports
    \/ Load
    \/ Sizes
    \/ XVal
    \/ XTest
    \/ PlotSplit
    \/ UniqueIds
    \/ Config
    \/ Construct
    \/ CrossValidation
    \/ BestResult
    \/ Columns
    \/ ReshapeStmt
    \/ PlotForecast
    \/ Metrics

Spec == Init /\ [][Next]_vars
\* ------------------------------------------------- cross_validation
Abs(x) == IF x < 0 THEN -x ELSE x

RECURSIVE SumTo(_, _)
SumTo(q, k) == IF k = 0 THEN 0 ELSE q[k] + SumTo(q, k - 1)
SumSeq(q) == SumTo(q, Len(q))

RECURSIVE Concat(_)
Concat(qs) == IF qs = << >> THEN << >> ELSE Head(qs) \o Concat(Tail(qs))

\* The value of series s at timestamp t in table d (timestamps are numbered
\* 1 .. n_time): two families of tables, one with repeated values and one
\* in which every value is different.
YVal(d, s, t) ==
    IF d.seed = 0 THEN (s + t) % 3 ELSE (s - 1) * d.n_time + t

\* The fitted network's forecast for step `step` after `cutoff`: the network
\* is opaque; it reads the series up to the cutoff and depends on the
\* configuration it was trained with.
Forecast(cfg, d, s, cutoff, step) ==
    YVal(d, s, cutoff) + ((cfg.random_seed + cfg.n_freq_downsample[1]) % 3)

\* The rows of one window: hh steps after the cutoff.
WindowRows(d, cfg, s, cutoff, hh) ==
    [t \in 1..hh |->
        [unique_id |-> s, ds |-> cutoff + t, cutoff |-> cutoff,
         y |-> YVal(d, s, cutoff + t),
         AutoNHITS |-> Forecast(cfg, d, s, cutoff, t)]]

\* nw windows with step_size 1, the first one after timestamp `first`, for
\* every series: the table is ordered by series, then cutoff, then timestamp.
Windows(d, cfg, first, nw, hh) ==
    Concat([s \in 1..d.n_series |->
              Concat([w \in 1..nw |-> WindowRows(d, cfg, s, first + w - 1, hh)])])

\* The validation windows of a trial: the val_size timestamps before the
\* last test_size ones.
ValRows(d, a, hh, cfg) ==
    Windows(d, cfg, d.n_time - a.val_size - a.test_size,
            NWindows(a.val_size, hh), hh)

\* The validation loss (MAE) of a configuration, as << sum, count >>.
ValLoss(d, a, hh, cfg) ==
    LET rows == ValRows(d, a, hh, cfg)
    IN  << SumSeq([i \in DOMAIN rows |-> Abs(rows[i].y - rows[i].AutoNHITS)]),
           Len(rows) >>

\* The timestamps a trial reads: it trains on the ones before the validation
\* set and scores on the validation set.
TrialReads(d, a, hh, cfg) ==
    (1..(d.n_time - a.val_size - a.test_size))
        \cup {ValRows(d, a, hh, cfg)[i].ds : i \in DOMAIN ValRows(d, a, hh, cfg)}

\* a < b for two means << sum, count >>.
Less(a, b) == a[1] * b[2] < b[1] * a[2]

\* results.get_best_result() with metric "loss", mode "min": the first trial
\* whose loss no other trial undercuts.
GetBestResult(results) ==
    CHOOSE i \in DOMAIN results :
        /\ \A j \in DOMAIN results : ~Less(results[j].loss, results[i].loss)
        /\ \A j \in 1..(i - 1) : Less(results[i].loss, results[j].loss)

\* The table cross_validation returns: the forecasts of the best
\* configuration over the windows of the last test_size timestamps.
TestRows(d, a, hh, cfg) ==
    Windows(d, cfg, d.n_time - a.test_size, NWindows(a.test_size, hh), hh)

\* The keyword arguments of the call: val_size=val_size, test_size=test_size.
CrossValidationArgsWidened(v, t) == [val_size |-> v, test_size |-> v + t]
CrossValidationArgs(v, t) == [val_size |-> v, test_size |-> t]

\* --------------------------------------------------- reshape and metrics
Chunks(q, size) ==
    [k \in 1..(Len(q) \div size) |-> SubSeq(q, (k - 1) * size + 1, k * size)]

\* q.reshape(s, -1, hh) in C order: rows of hh consecutive elements, grouped
\* into s blocks of consecutive rows.
ReshapeWindowsFirst(q, s, hh) == Chunks(Chunks(q, hh), s)
Reshape(q, s, hh) ==
    LET rows == Chunks(q, hh)
    IN  Chunks(rows, Len(rows) \div s)

Sum3(a) == SumSeq([i \in DOMAIN a |-> SumSeq([j \in DOMAIN a[i] |-> SumSeq(a[i][j])])])
Count3(a) == SumSeq([i \in DOMAIN a |-> SumSeq([j \in DOMAIN a[i] |-> Len(a[i][j])])])

\* mae(y, y_hat) and mse(y, y_hat) with the default axis=None: the mean over
\* every element of the arrays, as << sum, count >>.
mae(y, yh) ==
    LET e == [i \in DOMAIN y |-> [j \in DOMAIN y[i] |->
                [k \in DOMAIN y[i][j] |-> Abs(y[i][j][k] - yh[i][j][k])]]]
    IN  << Sum3(e), Count3(e) >>
mse(y, yh) ==
    LET e == [i \in DOMAIN y |-> [j \in DOMAIN y[i] |->
                [k \in DOMAIN y[i][j] |->
                    (y[i][j][k] - yh[i][j][k]) * (y[i][j][k] - yh[i][j][k])]]]
    IN  << Sum3(e), Count3(e) >>

\* ------------------------------------------------------- the call's steps
CVCall ==
    /\ cvpc = "call"
    /\ cvpc' = IF NWindows(args.test_size, h) < 1 \/ NWindows(args.val_size, h) < 1
               THEN "raised" ELSE "search"
    /\ UNCHANGED <<df, h, sizes, args, sampler, trials, selRead, best, fcst_df,
                   y_true, y_hat, mae_out, mse_out>>
    /\ UNCHANGED nbVars

\* One trial of the search: sample a configuration, train it, score it on the
\* validation set.
Trial ==
    /\ cvpc = "search"
    /\ Len(trials) < AutoNHITS(h).num_samples
    /\ LET cfg == SampleConfig(AutoNHITS(h).config,
                               Draw(sampler, Len(trials) + 1, AutoNHITS(h).config))
       IN  /\ trials' = Append(trials, [config |-> cfg,
                                        loss |-> ValLoss(df, args, h, cfg)])
           /\ selRead' = selRead \cup TrialReads(df, args, h, cfg)
    /\ UNCHANGED <<df, h, sizes, args, cvpc, sampler, best, fcst_df,
                   y_true, y_hat, mae_out, mse_out>>
    /\ UNCHANGED nbVars

SelectBest ==
    /\ cvpc = "search"
    /\ Len(trials) >= AutoNHITS(h).num_samples
    /\ best' = GetBestResult(trials)
    /\ cvpc' = "predict"
    /\ UNCHANGED <<df, h, sizes, args, sampler, trials, selRead, fcst_df,
                   y_true, y_hat, mae_out, mse_out>>
    /\ UNCHANGED nbVars

Predict ==
    /\ cvpc = "predict"
    /\ fcst_df' = TestRows(df, args, h, trials[best].config)
    /\ cvpc' = "returned"
    /\ UNCHANGED <<df, h, sizes, args, sampler, trials, selRead, best,
                   y_true, y_hat, mae_out, mse_out>>
    /\ UNCHANGED nbVars

\* y_true = fcst_df.y.values; y_hat = fcst_df['AutoNHITS'].values
ColumnsCV ==
    /\ cvpc = "returned"
    /\ y_true' = [i \in DOMAIN fcst_df |-> fcst_df[i].y]
    /\ y_hat' = [i \in DOMAIN fcst_df |-> fcst_df[i].AutoNHITS]
    /\ cvpc' = "columns"
    /\ UNCHANGED <<df, h, sizes, args, sampler, trials, selRead, best, fcst_df,
                   mae_out, mse_out>>
    /\ UNCHANGED nbVars

\* n_series = len(Y_df.unique_id.unique()); y.reshape(n_series, -1, horizon)
ReshapeCV ==
    /\ cvpc = "columns"
    /\ IF ~CanReshape(Len(y_true), df.n_series, h)
       THEN cvpc' = "raised" /\ UNCHANGED <<y_true, y_hat>>
       ELSE /\ y_true' = Reshape(y_true, df.n_series, h)
            /\ y_hat' = Reshape(y_hat, df.n_series, h)
            /\ cvpc' = "reshaped"
    /\ UNCHANGED <<df, h, sizes, args, sampler, trials, selRead, best, fcst_df,
                   mae_out, mse_out>>
    /\ UNCHANGED nbVars

\* print('MAE: ', mae(y_hat, y_true)); print('MSE: ', mse(y_hat, y_true))
MetricsCV ==
    /\ cvpc = "reshaped"
    /\ mae_out' = mae(y_hat, y_true)
    /\ mse_out' = mse(y_hat, y_true)
    /\ cvpc' = "printed"
    /\ UNCHANGED <<df, h, sizes, args, sampler, trials, selRead, best, fcst_df,
                   y_true, y_hat>>
    /\ UNCHANGED nbVars

NextCV ==
    \/ CVCall
    \/ Trial
    \/ SelectBest
    \/ Predict
    \/ ColumnsCV
    \/ ReshapeCV
    \/ MetricsCV

\* The notebook's variables at the call, for a table of n timestamps.
SizesOf(n) == [n_time |-> n, val_size |-> SplitSize(n), test_size |-> SplitSize(n)]

CVStart ==
    /\ sizes = SizesOf(df.n_time)
    /\ args = CrossValidationArgs(sizes.val_size, sizes.test_size)
    /\ cvpc = "call"
    /\ trials = << >>
    /\ selRead = {}
    /\ best = 0
    /\ fcst_df = << >>
    /\ y_true = << >>
    /\ y_hat = << >>
    /\ mae_out = << 0, 0 >>
    /\ mse_out = << 0, 0 >>

InitCV ==
    /\ InitNotebook
    /\ df \in [n_series : 1..MaxCVSeries, n_time : 1..MaxCVTime, seed : {0, 1}]
    /\ h \in 1..MaxCVHorizon
    /\ sampler \in [seed : 0..MaxCVSeed, stride : 0..MaxStride]
    /\ CVStart

SpecCV == InitCV /\ [][NextCV]_vars

\* The notebook's horizon and search space, on the smallest tables the call
\* accepts, from every state of the sampler.
InitSearch ==
    /\ InitNotebook
    /\ df \in [n_series : {1}, n_time : {5 * horizon}, seed : {0, 1}]
    /\ h = horizon
    /\ sampler \in [seed : 0..(SpaceSize(nhits_config) - 1), stride : 0..MaxStride]
    /\ CVStart

SpecSearch == InitSearch /\ [][NextCV]_vars

\* ------------------------------------------------------------ claims
IndexOf(stmt) == CHOOSE i \in 1..Len(Program) : Program[i] = stmt

\* The statement that produces an output.
OutBy(o) ==
    CASE o = "plot_split" -> "plot_split"
      [] o = "unique_ids" -> "unique_ids"
      [] o = "best_config" -> "best_result"
      [] o = "shapes" -> "reshape"
      [] o = "plot_forecast" -> "plot_forecast"
      [] OTHER -> "metrics"

\* The five stages of the pipeline: load data, define the search space,
\* construct the forecasting object, cross-validate, print/plot the metrics.
Stage(stmt) ==
    CASE stmt = "load" -> 1
      [] stmt = "config" -> 2
      [] stmt = "construct" -> 3
      [] stmt = "cross_validation" -> 4
      [] stmt \in {"plot_forecast", "metrics"} -> 5
      [] OTHER -> 0

MetricOutputs == {"plot_forecast", "MAE", "MSE"}

\* C1: the run is a linear pipeline: a stage starts only after the stage
\* before it was executed and returned, the stages never go backwards, no
\* statement runs twice, and no metric is printed or plotted unless
\* cross_validation has returned its forecast table.
C1_LinearPipeline ==
    /\ \A i, j \in DOMAIN executed : i < j => executed[i] # executed[j]
    /\ \A i, j \in DOMAIN executed :
         (i < j /\ Stage(executed[i]) > 0 /\ Stage(executed[j]) > 0)
            => Stage(executed[i]) <= Stage(executed[j])
    /\ \A j \in DOMAIN executed :
         Stage(executed[j]) > 1
            => \E i \in 1..(j - 1) : Stage(executed[i]) = Stage(executed[j]) - 1
    /\ \A k \in DOMAIN out :
         out[k] \in MetricOutputs => bound["fcst_df"] = "cross_validation"

C1_Witness ==
    /\ pc = Len(Program) + 1
    /\ err = "none"
    /\ Len(executed) = Len(Program)
    /\ \E k \in DOMAIN out : out[k] = "MSE"

C8_SplitSizes ==
    bound["test_size"] # Unbound =>
        LET n == ns.n_time
            v == ns.val_size
            t == ns.test_size
        IN  /\ n >= 1
            /\ v = n \div 5
            /\ t = n \div 5
            /\ v + t <= n
            /\ n - v - t >= 1
            /\ 0 <= ValMarker(n, v, t)
            /\ ValMarker(n, v, t) <= TestMarker(n, t)
            /\ TestMarker(n, t) <= n
            /\ (TestMarker(n, t) < n) <=> (n >= 5)
            /\ (bound["x_test"] # Unbound) => (n >= 5 /\ ns.x_test = n - t)
            /\ (err = "x_val") => (n < 5)

C8_Witness ==
    /\ bound["x_test"] = "x_test"
    /\ ns.n_time = 5
    /\ ns.x_val = 3
    /\ ns.x_test = 4
Range(q) == {q[i] : i \in DOMAIN q}

\* Every configuration the domains of a search space allow.
ConfigSpace(space) ==
    [learning_rate : Range(space.learning_rate),
     max_steps : Range(space.max_steps),
     input_size : Range(space.input_size),
     batch_size : Range(space.batch_size),
     windows_batch_size : Range(space.windows_batch_size),
     n_pool_kernel_size : Range(space.n_pool_kernel_size),
     n_freq_downsample : Range(space.n_freq_downsample),
     activation : Range(space.activation),
     n_blocks : Range(space.n_blocks),
     mlp_units : Range(space.mlp_units),
     interpolation_mode : Range(space.interpolation_mode),
     random_seed : Range(space.random_seed)]

FreeNames == {"n_pool_kernel_size", "n_freq_downsample", "random_seed"}

\* C2: the selection reads only timestamps before the last test_size ones
\* and covers the val_size timestamps just before them; no forecast row
\* exists until the best configuration is selected from all the trials; every
\* row of the returned table has its timestamp among the last test_size
\* timestamps (test_size as the notebook computed and passed it).
C2_ValidationThenTest ==
    LET n == sizes.n_time
        v == sizes.val_size
        t == sizes.test_size
    IN  /\ selRead \subseteq 1..(n - t)
        /\ best # 0 => ((n - v - t + 1)..(n - t)) \subseteq selRead
        /\ best = 0 => Len(fcst_df) = 0
        /\ Len(fcst_df) > 0 =>
              /\ Len(trials) = AutoNHITS(h).num_samples
              /\ best \in DOMAIN trials
        /\ \A i \in DOMAIN fcst_df :
              /\ fcst_df[i].ds \in (n - t + 1)..n
              /\ fcst_df[i].AutoNHITS =
                    Forecast(trials[best].config, df, fcst_df[i].unique_id,
                             fcst_df[i].cutoff, fcst_df[i].ds - fcst_df[i].cutoff)

C2_Witness ==
    /\ cvpc = "returned"
    /\ best # 0
    /\ sizes.test_size = 3
    /\ Len(fcst_df) = df.n_series * NWindows(sizes.test_size, h) * h
    /\ \E i \in DOMAIN fcst_df : fcst_df[i].ds = sizes.n_time
    /\ \E i \in DOMAIN fcst_df : fcst_df[i].ds = sizes.n_time - sizes.test_size + 1

\* C3: the search runs exactly num_samples = 5 trials, each with a
\* configuration of the search space nhits_config and its validation loss, and
\* the best result is one of those trials with no trial's validation loss
\* strictly below its own; nothing after the search runs before the best
\* result is chosen.
C3_BestOfFiveTrials ==
    /\ Len(trials) <= 5
    /\ \A i \in DOMAIN trials :
          /\ trials[i].config \in ConfigSpace(nhits_config)
          /\ trials[i].loss = ValLoss(df, args, h, trials[i].config)
    /\ best # 0 =>
          /\ Len(trials) = 5
          /\ best \in DOMAIN trials
          /\ \A j \in DOMAIN trials : ~Less(trials[j].loss, trials[best].loss)
    /\ cvpc \in {"predict", "returned", "columns", "reshaped", "printed"} => best # 0

C3_Witness ==
    /\ cvpc = "predict"
    /\ best > 1
    /\ \E j \in DOMAIN trials : Less(trials[best].loss, trials[j].loss)
    /\ \E j \in DOMAIN trials :
          /\ j # best
          /\ trials[j].config # trials[best].config
          /\ ~Less(trials[best].loss, trials[j].loss)

\* C6: nhits_config maps the twelve hyperparameter names to domains; every
\* sampled configuration has input_size = 5 * horizon = 480, the nine fixed
\* hyperparameters at their single listed value, n_pool_kernel_size and
\* n_freq_downsample among their listed options and 1 <= random_seed <= 9;
\* the space holds at most 54 configurations and two trials differ in no other
\* hyperparameter than those three.
C6_SearchSpace ==
    /\ DOMAIN nhits_config =
          {"learning_rate", "max_steps", "input_size", "batch_size",
           "windows_batch_size", "n_pool_kernel_size", "n_freq_downsample",
           "activation", "n_blocks", "mlp_units", "interpolation_mode",
           "random_seed"}
    /\ Cardinality(ConfigSpace(nhits_config)) <= 54
    /\ \A i \in DOMAIN trials :
          LET c == trials[i].config
          IN  /\ c.input_size = 5 * horizon
              /\ c.input_size = 480
              /\ c.learning_rate = "1e-3"
              /\ c.max_steps = 1000
              /\ c.batch_size = 7
              /\ c.windows_batch_size = 256
              /\ c.activation = "ReLU"
              /\ c.n_blocks = <<1, 1, 1>>
              /\ c.mlp_units = << <<512, 512>>, <<512, 512>>, <<512, 512>> >>
              /\ c.interpolation_mode = "linear"
              /\ c.n_pool_kernel_size \in { <<2, 2, 2>>, <<16, 8, 1>> }
              /\ c.n_freq_downsample \in { <<168, 24, 1>>, <<24, 12, 1>>, <<1, 1, 1>> }
              /\ c.random_seed \in 1..9
    /\ \A i, j \in DOMAIN trials :
          \A f \in DOMAIN nhits_config \ FreeNames :
              trials[i].config[f] = trials[j].config[f]

C6_Witness ==
    /\ Len(trials) = 5
    /\ \E i, j \in DOMAIN trials :
          /\ trials[i].config.n_pool_kernel_size # trials[j].config.n_pool_kernel_size
          /\ trials[i].config.n_freq_downsample # trials[j].config.n_freq_downsample
          /\ trials[i].config.random_seed = 9
          /\ trials[j].config.random_seed = 1

\* C7: after the reshape the row count of fcst_df is a multiple of
\* n_series * horizon, y_true and y_hat both have the shape (n_series,
\* n_windows, horizon) with n_windows the number of cross-validation windows
\* of a series, and element [s, w, t] is the row s * (n_windows * horizon) +
\* w * horizon + t of the table: step t of window w of series s (s, w, t
\* count from 1 here).
C7_ReshapeLayout ==
    cvpc \in {"reshaped", "printed"} =>
        LET S == df.n_series
            W == NWindows(sizes.test_size, h)
        IN  /\ Len(fcst_df) % (S * h) = 0
            /\ Len(fcst_df) \div (S * h) = W
            /\ Len(y_true) = S /\ Len(y_hat) = S
            /\ \A s \in 1..S :
                  /\ Len(y_true[s]) = W /\ Len(y_hat[s]) = W
                  /\ \A w \in 1..W : Len(y_true[s][w]) = h /\ Len(y_hat[s][w]) = h
            /\ \A s \in 1..S, w \in 1..W, t \in 1..h :
                  LET r == fcst_df[(s - 1) * (W * h) + (w - 1) * h + t]
                  IN  /\ y_true[s][w][t] = r.y
                      /\ y_hat[s][w][t] = r.AutoNHITS
                      /\ r.unique_id = s
                      /\ r.cutoff = sizes.n_time - sizes.test_size + (w - 1)
                      /\ r.ds = r.cutoff + t

C7_Witness ==
    /\ cvpc = "reshaped"
    /\ df.n_series = 2
    /\ df.seed = 1
    /\ h = 2
    /\ NWindows(sizes.test_size, h) = 2
    /\ Len(y_true) = 2
    /\ y_true[2][2][2] = fcst_df[8].y

\* C4: the printed MAE and MSE are the sums of mae and mse divided by
\* Windows * Horizon: the count their averages divide by is n_windows *
\* horizon.
C4_MeanOverWindowsHorizon ==
    cvpc = "printed" =>
        LET W == NWindows(sizes.test_size, h)
        IN  /\ mae_out[2] = W * h
            /\ mse_out[2] = W * h
            /\ mae_out[1] * (W * h) = mae_out[1] * mae_out[2]
            /\ mse_out[1] * (W * h) = mse_out[1] * mse_out[2]
====
